---- MODULE Spec2Model ----
(***************************************************************************)
(* A model of frontdoor's Route (lib/route.js): compilation of a route     *)
(* template into an anchored regular expression, normalisation of the      *)
(* parameter schema, Route.match and the decodeParams middleware.          *)
(*                                                                         *)
(* Strings that the code inspects character by character (templates,       *)
(* request paths, raw url/query values) are sequences of one-character     *)
(* strings.  Parameter names are TLA+ strings.  A JavaScript object is a    *)
(* function whose domain is its key set.                                   *)
(***************************************************************************)
EXTENDS Integers, Sequences, FiniteSets, TLC

\* ------------------------------------------------------------------ bounds

\* Longest request path, in characters.
MaxPathLen == 4

\* ------------------------------------------------------- characters, values

\* Characters a request path is built from.
PathChars == {"/", "i", "4", "\\"}

\* \w of the template scanner, restricted to the characters in use.
WordChars == {"i", "a", "b", "n", "u", "4"}

Digits == {"4"}

DigitVal(c) == IF c = "4" THEN 4 ELSE 0

\* string values and number values, as JavaScript tells them apart by typeof
Str(s) == [k |-> "str", s |-> s, n |-> 0]
Num(n) == [k |-> "num", s |-> << >>, n |-> n]

\* the value of a failed parse (never stored anywhere)
NoValue == [k |-> "none", s |-> << >>, n |-> 0]

\* {} : an object without keys
EmptyObj == [x \in {} |-> NoValue]

\* obj[key] = value
Put(obj, key, value) == (key :> value) @@ obj

\* key in obj
In(key, obj) == key \in DOMAIN obj

\* ------------------------------------------------------------ type registry

RECURSIVE DecimalValue(_)
DecimalValue(s) ==
    IF s = << >> THEN 0
    ELSE 10 * DecimalValue(SubSeq(s, 1, Len(s) - 1)) + DigitVal(s[Len(s)])

IsDecimal(s) == s # << >> /\ \A i \in 1..Len(s) : s[i] \in Digits

\* type.parse(raw): ok = FALSE stands for a thrown exception
TypeParse(type, raw) ==
    CASE type = "string" -> [ok |-> TRUE, v |-> Str(raw)]
      [] type = "number" ->
            IF IsDecimal(raw) THEN [ok |-> TRUE, v |-> Num(DecimalValue(raw))]
            ELSE [ok |-> FALSE, v |-> NoValue]
      [] OTHER ->  \* json: JSON.parse of the raw text
            IF IsDecimal(raw) THEN [ok |-> TRUE, v |-> Num(DecimalValue(raw))]
            ELSE [ok |-> FALSE, v |-> NoValue]

\* type.check(value)
TypeCheck(type, value) ==
    CASE type = "string" -> value.k = "str"
      [] type = "number" -> value.k = "num"
      [] OTHER -> value.k \in {"str", "num"}

\* type.toString()
TypeToString(type) == type

\* ----------------------------------------------------------- route options

\* A declaration of options.params.  "" stands for a property that is not
\* set; bare = TRUE is the shorthand  name: "number".
Decl(name, source, type, optional) ==
    [name |-> name, bare |-> FALSE, source |-> source, type |-> type,
     optional |-> optional]

BareDecl(name, type) ==
    [name |-> name, bare |-> TRUE, source |-> "", type |-> type, optional |-> ""]

\* the parameter name spelled by a run of word characters
RECURSIVE Join(_)
Join(cs) == IF cs = << >> THEN "" ELSE Head(cs) \o Join(Tail(cs))

\* ------------------------------------------------------ regular expression

\* Tokens of a compiled pattern: a literal character (esc: written with a
\* backslash in the pattern source) and the capture group ([^...]+), excl
\* being the characters its class excludes.
Lit(c) == [t |-> "lit", c |-> c, esc |-> FALSE, excl |-> {}]
\* a capture group that takes any run of characters
CapAnything(excl) == [t |-> "cap", c |-> "", esc |-> FALSE, excl |-> {}]

Cap(excl) == [t |-> "cap", c |-> "", esc |-> FALSE, excl |-> excl]

\* whether the literal token tok matches character x; an unescaped dot is
\* the wildcard
LitMatches(tok, x) == IF tok.c = "." /\ ~tok.esc THEN TRUE ELSE x = tok.c

\* length of the longest prefix of s without a character of excl
RECURSIVE ClassRun(_, _)
ClassRun(s, excl) ==
    IF s = << >> \/ Head(s) \in excl THEN 0 ELSE 1 + ClassRun(Tail(s), excl)

Drop(s, n) == SubSeq(s, n + 1, Len(s))

NoMatch == [ok |-> FALSE, caps |-> << >>]

\* Backtracking match of the tokens re against the whole of s (the pattern
\* is anchored by ^ and $).  A capture group is greedy: the longest run that
\* lets the rest match wins.  caps are the captured substrings, in order.
RECURSIVE ReMatch(_, _)
ReMatch(re, s) ==
    IF re = << >> THEN [ok |-> s = << >>, caps |-> << >>]
    ELSE LET tok == Head(re) IN
         IF tok.t = "lit"
         THEN IF s # << >> /\ LitMatches(tok, Head(s))
              THEN ReMatch(Tail(re), Tail(s))
              ELSE NoMatch
         ELSE LET fits == {n \in 1..ClassRun(s, tok.excl) :
                             ReMatch(Tail(re), Drop(s, n)).ok}
              IN  IF fits = {} THEN NoMatch
                  ELSE LET n == CHOOSE m \in fits : \A o \in fits : o <= m
                           rest == ReMatch(Tail(re), Drop(s, n))
                       IN  [ok |-> TRUE,
                            caps |-> <<SubSeq(s, 1, n)>> \o rest.caps]

\* ------------------------------------------------------------ normalizePath

\* index of the declaration of key in params, 0 when params[key] is unset
RECURSIVE IndexOf(_, _)
IndexOf(params, key) ==
    IF params = << >> THEN 0
    ELSE IF params[Len(params)].name = key THEN Len(params)
    ELSE IndexOf(SubSeq(params, 1, Len(params) - 1), key)

\* params[name] = { type: param } for a declaration given as a bare type
ExpandBare(params) ==
    [i \in DOMAIN params |->
        IF params[i].bare
        THEN [name |-> params[i].name, bare |-> FALSE, source |-> "",
              type |-> params[i].type, optional |-> ""]
        ELSE params[i]]

\* last index of the run of word characters that starts at j
RECURSIVE WordRunEnd(_, _)
WordRunEnd(path, j) ==
    IF j + 1 <= Len(path) /\ path[j + 1] \in WordChars
    THEN WordRunEnd(path, j + 1)
    ELSE j

\* whether /:(\w+) matches at position i of path
IsSegment(path, i) ==
    /\ i + 2 <= Len(path)
    /\ path[i] = "/"
    /\ path[i + 1] = ":"
    /\ path[i + 2] \in WordChars

\* the callback that takes a name only when its declaration names no source
AddUrlKeyUnsourced(acc, key) ==
    LET ps == IF IndexOf(acc.params, key) = 0
              THEN Append(acc.params, Decl(key, "", "", ""))
              ELSE acc.params
        i == IndexOf(ps, key)
        typed == [ps EXCEPT ![i].type = IF @ = "" THEN "string" ELSE @]
    IN  IF typed[i].source = ""
        THEN [acc EXCEPT !.keys = Append(@, key),
                         !.params = [typed EXCEPT ![i].source = "url"],
                         !.re = @ \o <<Lit("/"), Cap({"/"})>>]
        ELSE [acc EXCEPT !.keys = Append(@, key),
                         !.params = typed,
                         !.threw = TRUE]

\* the callback that pushes a key only when it meets the name first
AddUrlKeyOnce(acc, key) ==
    LET ps == IF IndexOf(acc.params, key) = 0
              THEN Append(acc.params, Decl(key, "", "", ""))
              ELSE acc.params
        i == IndexOf(ps, key)
        typed == [ps EXCEPT ![i].type = IF @ = "" THEN "string" ELSE @]
        seen == \E j \in DOMAIN acc.keys : acc.keys[j] = key
    IN  IF typed[i].source \in {"", "url"}
        THEN [acc EXCEPT !.keys = IF seen THEN @ ELSE Append(@, key),
                         !.params = [typed EXCEPT ![i].source = "url"],
                         !.re = @ \o <<Lit("/"), Cap({"/"})>>]
        ELSE [acc EXCEPT !.keys = Append(@, key),
                         !.params = typed,
                         !.threw = TRUE]

\* the callback that takes every segment name for a url parameter, whatever
\* source its declaration names
AddUrlKeyAnySource(acc, key) ==
    LET ps == IF IndexOf(acc.params, key) = 0
              THEN Append(acc.params, Decl(key, "", "", ""))
              ELSE acc.params
        i == IndexOf(ps, key)
    IN  [acc EXCEPT !.keys = Append(@, key),
                    !.params = [ps EXCEPT ![i].type = IF @ = "" THEN "string"
                                                      ELSE @,
                                          ![i].source = "url"],
                    !.re = @ \o <<Lit("/"), Cap({"/"})>>]

\* The callback of the first replace for url parameter key: key is pushed,
\* its declaration is created or completed, a conflicting source throws.
AddUrlKey(acc, key) ==
    LET ps == IF IndexOf(acc.params, key) = 0
              THEN Append(acc.params, Decl(key, "", "", ""))
              ELSE acc.params
        i == IndexOf(ps, key)
        typed == [ps EXCEPT ![i].type = IF @ = "" THEN "string" ELSE @]
    IN  IF typed[i].source \in {"", "url"}
        THEN [acc EXCEPT !.keys = Append(@, key),
                         !.params = [typed EXCEPT ![i].source = "url"],
                         !.re = @ \o <<Lit("/"), Cap({"/"})>>]
        ELSE [acc EXCEPT !.keys = Append(@, key),
                         !.params = typed,
                         !.threw = TRUE]

\* path.replace(/\/:(\w+)/g, ...) : left to right, from position i on
RECURSIVE ReplaceSegments(_, _, _)
ReplaceSegments(path, i, acc) ==
    IF acc.threw \/ i > Len(path) THEN acc
    ELSE IF IsSegment(path, i)
    THEN LET e == WordRunEnd(path, i + 2)
         IN  ReplaceSegments(path, e + 1,
                             AddUrlKey(acc, Join(SubSeq(path, i + 2, e))))
    ELSE ReplaceSegments(path, i + 1, [acc EXCEPT !.re = Append(@, Lit(path[i]))])

\* .replace(/([\/.])/g, '\\$1') on the pattern text: every / and . gets a
\* backslash, also the / inside the class of a capture group, which thereby
\* excludes the backslash as well
EscapeToken(tok) ==
    IF tok.t = "lit"
    THEN [tok EXCEPT !.esc = tok.c \in {"/", "."}]
    ELSE [tok EXCEPT !.excl = IF "/" \in @ THEN @ \cup {"\\"} ELSE @]

EscapeDelimiters(re) == [i \in DOMAIN re |-> EscapeToken(re[i])]

normalizePath(path, params) ==
    LET acc == ReplaceSegments(path, 1,
                   [threw |-> FALSE, re |-> << >>, keys |-> << >>,
                    params |-> ExpandBare(params)])
    IN  [acc EXCEPT !.re = EscapeDelimiters(@)]

\* ---------------------------------------------------------- normalizeParams

\* the names the registry has a type for
Registered == {"string", "number", "json"}

\* types.get(type): the type object registered under the name
TypesGet(type) == type

\* a normalization whose default type is string for every source
NormalizeParamStringDefault(param) ==
    LET sourced ==
            [param EXCEPT !.type = IF @ = "" THEN "string" ELSE @,
                          !.source = IF @ = "" THEN "body" ELSE @]
    IN  IF sourced.source \notin {"query", "body", "url"}
        THEN [threw |-> TRUE, param |-> param]
        ELSE [threw |-> FALSE,
              param |-> [name |-> sourced.name,
                         source |-> sourced.source,
                         type |-> TypesGet(sourced.type),
                         optional |-> (sourced.optional = "true")]]

\* One declaration of the loop of normalizeParams; threw = TRUE when its
\* source is none of url, query, body, or when the registry has no type for
\* its type specifier.
NormalizeParam(param) ==
    LET sourced ==
            IF param.source = "query"
            THEN [param EXCEPT !.type = IF @ = "" THEN "string" ELSE @]
            ELSE IF param.source \in {"", "body"}
            THEN [param EXCEPT !.type = IF @ = "" THEN "json" ELSE @,
                               !.source = "body"]
            ELSE param
    IN  IF sourced.source \notin {"query", "body", "url"}
        THEN [threw |-> TRUE, param |-> param]
        ELSE IF sourced.type \notin Registered
        THEN [threw |-> TRUE, param |-> param]
        ELSE [threw |-> FALSE,
              param |-> [name |-> sourced.name,
                         source |-> sourced.source,
                         type |-> TypesGet(sourced.type),
                         optional |-> (sourced.optional = "true")]]

\* for (var name in params): in insertion order, stopping at the first throw
RECURSIVE normalizeParams(_, _, _)
normalizeParams(params, i, done) ==
    IF i > Len(params) THEN [threw |-> FALSE, params |-> done]
    ELSE LET r == NormalizeParam(params[i])
         IN  IF r.threw THEN [threw |-> TRUE, params |-> done]
             ELSE normalizeParams(params, i + 1, Append(done, r.param))

\* ------------------------------------------------------------- constructor

ToLowerCase(m) == CASE m = "GET" -> "get" [] m = "POST" -> "post" [] OTHER -> m

\* new Route(route, options, handler): threw = TRUE when the constructor
\* throws.  name is this.name, which the constructor never assigns; options
\* are the fields of the options object the closures read later; aliased
\* tells that this.middlewares is the caller's handler array itself.
Route(options) ==
    LET np == normalizePath(options.route, options.params)
        ps == normalizeParams(np.params, 1, << >>)
        failed == np.threw \/ ps.threw
    IN  [threw |-> failed,
         method |-> ToLowerCase(IF options.method = "" THEN "GET"
                                ELSE options.method),
         name |-> "",
         options |-> [route |-> options.route, name |-> options.name],
         aliased |-> options.handler.kind = "array",
         routeRe |-> IF failed THEN << >> ELSE np.re,
         keys |-> IF failed THEN << >> ELSE np.keys,
         params |-> IF failed THEN << >> ELSE ps.params]

\* A step of a middleware chain: the decodeParams closure of the route
\* constructed id-th, or a function of the caller (id 0).
Step(fn, id) == [fn |-> fn, id |-> id]

\* wrapHandler(handler) for a handler of two arguments
WrapHandler(step) == Step("wrapped", 0)

\* The array this.middlewares of the route constructed id-th, after
\* unshift(decodeParams).  array is what the caller's handler array holds at
\* the call: for a handler given as an array, this.middlewares is that very
\* array.
Middlewares(handler, array, id) ==
    LET own == IF handler.kind = "array" THEN array
               ELSE IF handler.kind = "fn2"
               THEN <<WrapHandler(Step("handler", 0))>>
               ELSE <<Step("handler", 0)>>
    IN  <<Step("decodeParams", id)>> \o own

\* ------------------------------------------------------------------- inputs

Options(route, method, name, params, handler) ==
    [route |-> route, method |-> method, name |-> name, params |-> params,
     handler |-> handler]

\* handlers: a function of (req, res, next), a function of (params,
\* callback), an array of middlewares that ends with the handler
Fn3 == [kind |-> "fn3", steps |-> << >>]

Fn2 == [kind |-> "fn2", steps |-> << >>]

Handlers == [kind |-> "array", steps |-> <<Step("auth", 0), Step("handler", 0)>>]

\* the (template, options) pairs routes are constructed from
RouteInputs ==
    { Options(<<"/", "i", "/", ":", "n">>, "", "",
              <<BareDecl("n", "number"), Decl("q", "query", "number", "true"),
                Decl("c", "", "string", "")>>, Handlers),
      Options(<<"/", ":", "a", "/", ":", "b">>, "", "",
              <<Decl("a", "url", "number", ""), Decl("b", "", "number", "false"),
                Decl("q", "query", "", ""), Decl("c", "body", "", "true")>>,
              Fn2),
      Options(<<"/", "i">>, "POST", "items",
              <<Decl("q", "query", "number", "false"),
                Decl("c", "body", "number", "")>>, Handlers),
      Options(<<"/", ":", "a", "/", ":", "a">>, "", "", << >>, Fn3),
      Options(<<"/", ":", "n">>, "", "",
              <<Decl("n", "", "number", ""), Decl("q", "query", "", "true")>>,
              Fn3),
      Options(<<"/", "i", "/", ":", "n">>, "", "items",
              <<Decl("u", "url", "number", ""), Decl("c", "", "", "true")>>,
              Fn2),
      Options(<<"/", "i", "/", ":", "n">>, "", "",
              <<Decl("u", "url", "string", "true")>>, Handlers),
      Options(<<"/", "i", "/", ":", "n">>, "", "",
              <<Decl("n", "query", "", "")>>, Handlers),
      Options(<<"/", "i">>, "", "",
              <<Decl("q", "header", "", "")>>, Fn3),
      Options(<<"/", "i">>, "", "",
              <<Decl("u", "url", "", "true")>>, Fn3) }

\* all sequences over chars of length at most n
RECURSIVE SeqsUpTo(_, _)
SeqsUpTo(chars, n) ==
    IF n = 0 THEN {<< >>}
    ELSE LET shorter == SeqsUpTo(chars, n - 1)
         IN  shorter \cup {Append(s, c) : s \in shorter, c \in chars}

\* request paths: they start with a slash
Paths == {<<"/">> \o s : s \in SeqsUpTo(PathChars, MaxPathLen - 1)}

\* the objects a and b merged, a's keys first
Merge(a, b) == a @@ b

\* the objects {}, {key: v} for v in vals
WithKey(key, vals) == {EmptyObj} \cup {key :> v : v \in vals}

\* req.parsedUrl.query: q is the declared query parameter, z is undeclared
Queries ==
    {Merge(q, z) : q \in WithKey("q", {<<"4">>, <<"i">>}),
                   z \in WithKey("z", {<<"4">>})}

\* req.body, JSON-decoded; Undefined when the request has none.  c is the
\* declared body parameter, z is undeclared.
Undefined == [x \in {"undefined"} |-> NoValue]

Bodies ==
    {Merge(c, z) : c \in WithKey("c", {Num(4), Str(<<"i">>)}),
                   z \in WithKey("z", {Num(4)})} \cup {Undefined}

Requests == {"A", "B"}

\* -------------------------------------------------------------------- state

VARIABLES
    route,      \* the constructed Route: its closure variables and fields
    lastMatch,  \* this.lastMatch
    pc,         \* per request: "idle", or "matched" between its match and
                \* its decodeParams
    reqPath,    \* per request in flight: the path its match was called with
    writer,     \* the request whose match call assigned lastMatch last
    call,       \* the most recent call of match, decodeParams or describe:
                \* its arguments, what it returned, wrote and called
    input,      \* the arguments the constructor of route was called with
    middlewares,\* the array route.middlewares (the caller's handler array
                \* when the handler was given as an array)
    other,      \* the routes constructed after route from the same arguments,
                \* each with whether it was given the options object the
                \* construction of route has normalized
    described   \* what describe returned when it was called last

vars == <<route, lastMatch, pc, reqPath, writer, call, input, middlewares,
          other, described>>

NoCall ==
    [op |-> "none", req |-> "", path |-> << >>, reOk |-> FALSE, caps |-> << >>,
     ret |-> FALSE, calls |-> << >>, query |-> EmptyObj, body |-> EmptyObj,
     urlParams |-> EmptyObj, params |-> EmptyObj, errors |-> << >>,
     written |-> << >>, nextCalls |-> 0]

\* describe was not called yet
NotDescribed == [called |-> FALSE]

\* the state after  new Route(o.route, o, o.handler)
Constructed(o) ==
    /\ input = o
    /\ route = Route(o)
    /\ middlewares = Middlewares(o.handler, o.handler.steps, 1)
    /\ other = << >>
    /\ lastMatch = EmptyObj
    /\ pc = [r \in Requests |-> "idle"]
    /\ reqPath = [r \in Requests |-> << >>]
    /\ writer = ""
    /\ call = NoCall
    /\ described = NotDescribed

Init == \E o \in RouteInputs : Constructed(o)

\* -------------------------------------------------------------- Route.match

\* params[key] of the normalized schema
ParamOf(params, key) == params[IndexOf(params, key)]

\* A throwing parse or a failing check: the values bound so far are dropped
\* (this.lastMatch = {}) and match returns false.
MatchFailureKeepsBound(bound, calls) ==
    [ret |-> FALSE, lastMatch |-> bound, calls |-> calls]

MatchFailure(bound, calls) ==
    [ret |-> FALSE, lastMatch |-> EmptyObj, calls |-> calls]

\* The loop of match over keys[i..]: bound is lastMatch so far, calls the
\* type calls made so far, each with the index of its segment.
RECURSIVE MatchKeys(_, _, _, _, _, _)
MatchKeys(keys, params, caps, i, bound, calls) ==
    IF i > Len(keys) THEN [ret |-> TRUE, lastMatch |-> bound, calls |-> calls]
    ELSE LET key == keys[i]
             type == ParamOf(params, key).type
             parsed == TypeParse(type, caps[i])
             calls1 == Append(calls, <<"parse", i>>)
             calls2 == Append(calls1, <<"check", i>>)
         IN  IF ~parsed.ok THEN MatchFailure(bound, calls1)
             ELSE IF ~TypeCheck(type, parsed.v) THEN MatchFailure(bound, calls2)
             ELSE MatchKeys(keys, params, caps, i + 1,
                            Put(bound, key, parsed.v), calls2)

\* match without the loop over keys: the raw captures are bound
RouteMatchUnparsed(rt, before, path) ==
    LET m == ReMatch(rt.routeRe, path)
    IN  [reOk |-> m.ok, caps |-> m.caps, ret |-> m.ok,
         lastMatch |-> IF m.ok
                       THEN [k \in {rt.keys[i] : i \in DOMAIN rt.keys} |->
                               Str(m.caps[CHOOSE i \in DOMAIN rt.keys :
                                              rt.keys[i] = k])]
                       ELSE before,
         calls |-> << >>]

\* this.match(path) called with this.lastMatch = before
RouteMatch(rt, before, path) ==
    LET m == ReMatch(rt.routeRe, path)
    IN  IF ~m.ok
        THEN [reOk |-> FALSE, caps |-> << >>, ret |-> FALSE,
              lastMatch |-> before, calls |-> << >>]
        ELSE LET r == MatchKeys(rt.keys, rt.params, m.caps, 1, EmptyObj, << >>)
             IN  [reOk |-> TRUE, caps |-> m.caps, ret |-> r.ret,
                  lastMatch |-> r.lastMatch, calls |-> r.calls]

\* Request r arrives with path: the route is asked whether it matches.  On
\* true the request goes on to the route's middlewares.
Match(r, path) ==
    /\ ~route.threw
    /\ pc[r] = "idle"
    /\ LET m == RouteMatch(route, lastMatch, path)
       IN  /\ lastMatch' = m.lastMatch
           /\ pc' = [pc EXCEPT ![r] = IF m.ret THEN "matched" ELSE "idle"]
           /\ reqPath' = [reqPath EXCEPT ![r] = IF m.ret THEN path ELSE << >>]
           /\ writer' = IF m.reOk THEN r ELSE writer
           /\ call' = [NoCall EXCEPT !.op = "match", !.req = r,
                                     !.path = IF m.reOk THEN path ELSE << >>,
                                     !.reOk = m.reOk, !.caps = m.caps,
                                     !.ret = m.ret, !.calls = m.calls]
    /\ UNCHANGED <<route, input, middlewares, other, described>>

\* ------------------------------------------------------------- decodeParams

\* the marker object EMPTY
Empty == [k |-> "empty", s |-> << >>, n |-> 0]

\* self.name || "root"
Resource(rt) == IF rt.name # "" THEN rt.name ELSE "root"

\* a missing_field record without its source
MissingFieldWithoutSource(rt, param) ==
    [resource |-> Resource(rt), field |-> param.name, code |-> "missing_field"]

MissingField(rt, param) ==
    [resource |-> Resource(rt), field |-> param.name,
     source |-> param.source, code |-> "missing_field"]

InvalidWithSource(rt, param) ==
    [resource |-> Resource(rt), field |-> param.name, source |-> param.source,
     type_expected |-> TypeToString(param.type), code |-> "invalid"]

Invalid(rt, param) ==
    [resource |-> Resource(rt), field |-> param.name,
     type_expected |-> TypeToString(param.type), code |-> "invalid"]

\* the source map of param lacks its key
Absent(param, body, query, urlParams) ==
    \/ param.source = "body" /\ ~In(param.name, body)
    \/ param.source = "query" /\ ~In(param.name, query)
    \/ param.source = "url" /\ ~In(param.name, urlParams)

\* a query value whose parse failure is forgotten: check runs on EMPTY
QueryValueChecksAnyway(type, raw, key) ==
    LET parsed == TypeParse(type, raw)
        value == IF parsed.ok THEN parsed.v ELSE Empty
    IN  [value |-> value, isValid |-> TypeCheck(type, value),
         calls |-> <<<<"parse", key>>, <<"check", key>>>>]

\* The query case: parse in a try/catch, and check unless parse threw.
QueryValue(type, raw, key) ==
    LET parsed == TypeParse(type, raw)
    IN  IF ~parsed.ok
        THEN [value |-> Empty, isValid |-> FALSE,
              calls |-> <<<<"parse", key>>>>]
        ELSE [value |-> parsed.v, isValid |-> TypeCheck(type, parsed.v),
              calls |-> <<<<"parse", key>>, <<"check", key>>>>]

\* The switch over param.source: the value read (Empty when none), whether
\* it is valid, and the type calls made.
ReadParam(param, body, query, urlParams) ==
    LET key == param.name
        type == param.type
        skip == [value |-> Empty, isValid |-> TRUE, calls |-> << >>]
    IN  CASE param.source = "body" ->
                IF param.optional /\ ~In(key, body) THEN skip
                ELSE [value |-> body[key],
                      isValid |-> TypeCheck(type, body[key]),
                      calls |-> <<<<"check", key>>>>]
          [] param.source = "query" ->
                IF param.optional /\ ~In(key, query) THEN skip
                ELSE QueryValue(type, query[key], key)
          [] param.source = "url" ->
                IF param.optional /\ ~In(key, urlParams) THEN skip
                ELSE [value |-> urlParams[key], isValid |-> TRUE,
                      calls |-> << >>]
          [] OTHER -> skip

\* req.params[key] = value without the test for EMPTY
ForwardAlways(params, key, value) == Put(params, key, value)

\* if (value !== EMPTY) req.params[key] = value
Forward(params, key, value) ==
    IF value # Empty THEN Put(params, key, value) ELSE params

\* One iteration of  for (var key in params)  on acc = req.params, errors
\* and the type calls so far.
DecodeParam(rt, param, body, query, urlParams, acc) ==
    IF ~param.optional /\ Absent(param, body, query, urlParams)
    THEN [acc EXCEPT !.errors = Append(@, MissingField(rt, param))]
    ELSE LET r == ReadParam(param, body, query, urlParams)
         IN  IF ~r.isValid
             THEN [acc EXCEPT !.errors = Append(@, Invalid(rt, param)),
                              !.calls = @ \o r.calls]
             ELSE [acc EXCEPT !.params = Forward(@, param.name, r.value),
                              !.calls = @ \o r.calls]

\* a loop that gives up at the first error
MoreParamsUntilError(rt, i, acc) == i <= Len(rt.params) /\ acc.errors = << >>

\* the loop over params has a next key, whatever was collected so far
MoreParams(rt, i, acc) == i <= Len(rt.params)

RECURSIVE DecodeLoop(_, _, _, _, _, _)
DecodeLoop(rt, i, body, query, urlParams, acc) ==
    IF ~MoreParams(rt, i, acc) THEN acc
    ELSE DecodeLoop(rt, i + 1, body, query, urlParams,
                    DecodeParam(rt, rt.params[i], body, query, urlParams, acc))

\* res.writeHead(422, ...) and res.end(JSON.stringify(...))
ValidationFailed(errors) ==
    [status |-> 422, contentType |-> "application/json",
     message |-> "Validation failed", errors |-> errors]

\* a 422 written without the return after it
RespondAndGoOn(errors) ==
    [written |-> IF errors # << >> THEN <<ValidationFailed(errors)>> ELSE << >>,
     nextCalls |-> 1]

\* if (errors.length) { 422; return; }  next();
Respond(errors) ==
    IF errors # << >>
    THEN [written |-> <<ValidationFailed(errors)>>, nextCalls |-> 0]
    ELSE [written |-> << >>, nextCalls |-> 1]

\* decodeParams(req, res, next) reading urlParams = self.lastMatch.
\* self.lastMatch is always an object, {} included, and an object is truthy:
\* the early return of the first line is never taken.
RunDecodeParams(rt, urlParams, reqBody, query) ==
    LET body == IF reqBody = Undefined THEN EmptyObj ELSE reqBody
        acc == DecodeLoop(rt, 1, body, query, urlParams,
                          [params |-> EmptyObj, errors |-> << >>,
                           calls |-> << >>])
    IN  [params |-> acc.params, errors |-> acc.errors, calls |-> acc.calls,
         written |-> Respond(acc.errors).written,
         nextCalls |-> Respond(acc.errors).nextCalls]

\* match state kept per request: what the request's own match bound
MatchStateOwn(r) == RouteMatch(route, EmptyObj, reqPath[r]).lastMatch

\* var urlParams = self.lastMatch: the state of the shared route instance,
\* whichever request's match wrote it
MatchStateFor(r) == lastMatch

\* The first middleware of request r, whose match returned true, runs with
\* the request's query and body.
DecodeParams(r, query, body) ==
    /\ ~route.threw
    /\ pc[r] = "matched"
    /\ LET d == RunDecodeParams(route, MatchStateFor(r), body, query)
       IN  call' = [NoCall EXCEPT !.op = "decodeParams", !.req = r,
                                  !.path = reqPath[r], !.query = query,
                                  !.body = body, !.urlParams = MatchStateFor(r),
                                  !.params = d.params, !.errors = d.errors,
                                  !.calls = d.calls, !.written = d.written,
                                  !.nextCalls = d.nextCalls]
    /\ pc' = [pc EXCEPT ![r] = "idle"]
    /\ reqPath' = [reqPath EXCEPT ![r] = << >>]
    /\ UNCHANGED <<route, lastMatch, writer, input, middlewares, other,
                   described>>

\* ----------------------------------------------------------------- describe

\* The object describe returns.  name = "" stands for no name property
\* (options.name unset).  The name of an exported parameter is param.name,
\* which nothing sets; exported is FALSE when the params property is deleted
\* because the schema is empty.
Describe(rt) ==
    [called |-> TRUE,
     route |-> rt.options.route,
     method |-> rt.method,
     name |-> rt.options.name,
     exported |-> rt.params # << >>,
     params |-> [i \in DOMAIN rt.params |->
                    [key |-> rt.params[i].name,
                     name |-> "",
                     type |-> TypeToString(rt.params[i].type),
                     source |-> rt.params[i].source,
                     optional |-> rt.params[i].optional]]]

\* a describe that stores the method in the spelling it exports
AfterDescribeUpperCased(rt) ==
    [rt EXCEPT !.method = CASE @ = "get" -> "GET" [] @ = "post" -> "POST"
                            [] OTHER -> @]

\* the route after describe has run: describe fills a fresh object and
\* assigns to no property of the route or of its schema
AfterDescribe(rt) == rt

\* route.describe() is called, between any two other calls.
DescribeRoute ==
    /\ ~route.threw
    /\ described' = Describe(route)
    /\ route' = AfterDescribe(route)
    /\ UNCHANGED <<lastMatch, pc, reqPath, writer, call, input, middlewares,
                   other>>

\* ------------------------------------------------------------ specification

\* no other request is between its match and its decodeParams
NoneInFlight == \A r \in Requests : pc[r] = "idle"

\* Requests handled one after the other: the steps between match and
\* decodeParams do not suspend.
Next ==
    \/ \E r \in Requests, path \in Paths : NoneInFlight /\ Match(r, path)
    \/ \E r \in Requests, query \in Queries, body \in Bodies :
          DecodeParams(r, query, body)
    \/ DescribeRoute

Spec == Init /\ [][Next]_vars

\* Requests in flight together: a step between match and decodeParams
\* suspends, and another request's match runs meanwhile.
RaceInputs == {o \in RouteInputs : ~Route(o).threw /\ Route(o).keys # << >>}

RaceQueries == {EmptyObj, "q" :> <<"4">>}

RaceBodies == {Undefined, "c" :> Str(<<"i">>)}

InitRace == \E o \in RaceInputs : Constructed(o)

NextRace ==
    \/ \E r \in Requests, path \in Paths : Match(r, path)
    \/ \E r \in Requests, query \in RaceQueries, body \in RaceBodies :
          DecodeParams(r, query, body)

SpecRace == InitRace /\ [][NextRace]_vars

\* Routes constructed again from the arguments of the first: the same
\* template, the same handler (for an array, the same array object) and the
\* same options, either as the caller wrote them or the options object
\* itself, which the first construction has normalized in place.
MaxOthers == 1

\* The options object after the constructor has run on it: options.params
\* holds the url parameters too, every source and optional is set and every
\* type is the resolved type object.
NormalizedOptions(o, rt) ==
    [o EXCEPT !.params =
        [i \in DOMAIN rt.params |->
            Decl(rt.params[i].name, rt.params[i].source, rt.params[i].type,
                 IF rt.params[i].optional THEN "true" ELSE "false")]]

\* new Route(input.route, options, input.handler) once more
ConstructOther(reuse) ==
    /\ ~route.threw
    /\ NoneInFlight
    /\ Len(other) < MaxOthers
    /\ other' = Append(other,
                       [route |-> Route(IF reuse
                                        THEN NormalizedOptions(input, route)
                                        ELSE input),
                        reused |-> reuse])
    /\ middlewares' = IF route.aliased
                      THEN Middlewares(input.handler, middlewares, Len(other) + 2)
                      ELSE middlewares
    /\ call' = [NoCall EXCEPT !.op = "construct"]
    /\ UNCHANGED <<route, lastMatch, pc, reqPath, writer, input, described>>

\* the route whose constructor created the decodeParams closure of step
RouteOf(step) == IF step.id = 1 THEN route ELSE other[step.id - 1].route

\* self.lastMatch of that route; no request is matched against the routes
\* constructed later, theirs is still the {} of the constructor
LastMatchOf(step) == IF step.id = 1 THEN lastMatch ELSE EmptyObj

\* The steps of route.middlewares run for a request in array order: every
\* decodeParams step validates against the route of its closure; a step that
\* responds does not call next, and the steps after it do not run.  ran is
\* the decodeParams step that ran last, first what the first step did.
RECURSIVE RunSteps(_, _, _, _)
RunSteps(steps, query, body, acc) ==
    IF steps = << >> \/ Head(steps).fn # "decodeParams" THEN acc
    ELSE LET d == RunDecodeParams(RouteOf(Head(steps)), LastMatchOf(Head(steps)),
                                  body, query)
             now == [ran |-> d, urlParams |-> LastMatchOf(Head(steps)),
                     first |-> IF acc.first = 0 THEN Head(steps).id
                               ELSE acc.first]
         IN  IF d.nextCalls = 0 THEN now
             ELSE RunSteps(Tail(steps), query, body, now)

\* Request r, whose match returned true, is run through route.middlewares.
RunMiddlewares(r, query, body) ==
    /\ ~route.threw
    /\ pc[r] = "matched"
    /\ LET run == RunSteps(middlewares, query, body,
                           [ran |-> NoCall, urlParams |-> EmptyObj, first |-> 0])
           d == run.ran
       IN  call' = [NoCall EXCEPT !.op = "decodeParams", !.req = r,
                                  !.path = reqPath[r], !.query = query,
                                  !.body = body, !.urlParams = run.urlParams,
                                  !.params = d.params, !.errors = d.errors,
                                  !.calls = d.calls, !.written = d.written,
                                  !.nextCalls = d.nextCalls]
    /\ pc' = [pc EXCEPT ![r] = "idle"]
    /\ reqPath' = [reqPath EXCEPT ![r] = << >>]
    /\ UNCHANGED <<route, lastMatch, writer, input, middlewares, other,
                   described>>

BuildInputs == {o \in RouteInputs : ~Route(o).threw}

InitBuild == \E o \in BuildInputs : Constructed(o)

NextBuild ==
    \/ \E reuse \in BOOLEAN : ConstructOther(reuse)
    \/ \E r \in {"A"}, path \in Paths : NoneInFlight /\ Match(r, path)
    \/ \E r \in {"A"}, query \in RaceQueries, body \in RaceBodies :
          RunMiddlewares(r, query, body)

SpecBuild == InitBuild /\ [][NextBuild]_vars

\* ------------------------------------------------- vocabulary of the claims

\* the names of the url segments of the route
KeyNames == {route.keys[i] : i \in DOMAIN route.keys}

\* the declared type of the i-th url segment
SegType(i) == ParamOf(route.params, route.keys[i]).type

\* the i-th capture of the last match call does not parse, or its parsed
\* value does not pass check
SegFails(i) ==
    \/ ~TypeParse(SegType(i), call.caps[i]).ok
    \/ ~TypeCheck(SegType(i), TypeParse(SegType(i), call.caps[i]).v)

\* the position of the last segment named key
LastSeg(key) ==
    CHOOSE i \in DOMAIN route.keys :
        route.keys[i] = key /\ \A j \in DOMAIN route.keys :
                                  route.keys[j] = key => j <= i

\* the url values a successful match of path binds: per segment name the
\* parsed capture (of its last occurrence)
UrlValues(path) ==
    [key \in KeyNames |->
        TypeParse(SegType(LastSeg(key)),
                  ReMatch(route.routeRe, path).caps[LastSeg(key)]).v]

\* the declared parameters of the route
Declared == {route.params[i] : i \in DOMAIN route.params}

\* the body decodeParams works on
BodyOf(c) == IF c.body = Undefined THEN EmptyObj ELSE c.body

\* the source map of parameter p in decodeParams run c
SourceMap(p, c) ==
    CASE p.source = "body" -> BodyOf(c)
      [] p.source = "query" -> c.query
      [] OTHER -> c.urlParams

IsPresent(p, c) == p.name \in DOMAIN SourceMap(p, c)

IsMissing(p, c) == ~p.optional /\ ~IsPresent(p, c)

\* a present query value whose parse throws
ParseThrows(p, c) ==
    /\ p.source = "query"
    /\ IsPresent(p, c)
    /\ ~TypeParse(p.type, c.query[p.name]).ok

IsInvalid(p, c) ==
    /\ IsPresent(p, c)
    /\ \/ p.source = "body" /\ ~TypeCheck(p.type, BodyOf(c)[p.name])
       \/ ParseThrows(p, c)
       \/ /\ p.source = "query"
          /\ TypeParse(p.type, c.query[p.name]).ok
          /\ ~TypeCheck(p.type, TypeParse(p.type, c.query[p.name]).v)

Violates(p, c) == IsMissing(p, c) \/ IsInvalid(p, c)

\* the positions of the error list of run c that are about field
ErrorsFor(field, c) == {i \in DOMAIN c.errors : c.errors[i].field = field}

Decoded == call.op = "decodeParams"

Matched == call.op = "match"

\* ------------------------------------------------------------------- claims

\* C1: a match call whose pattern does not match the path returns false and
\* leaves lastMatch empty, whatever lastMatch held before.
C1_PatternMissClearsState ==
    (Matched /\ ~call.reOk) => (~call.ret /\ lastMatch = EmptyObj)

C3_RaceReadsOtherRequest ==
    (Decoded /\ writer \notin {"", call.req} /\ pc[writer] = "matched") =>
        /\ call.urlParams = UrlValues(reqPath[writer])
        /\ \A key \in KeyNames :
              /\ key \in DOMAIN call.params
              /\ call.params[key] = UrlValues(reqPath[writer])[key]
        /\ call.errors = << >> => call.nextCalls = 1

\* C3 witness: A is forwarded url values that differ from those of its own
\* path.
C3_Witness ==
    /\ Decoded /\ call.req = "A" /\ writer = "B" /\ pc["B"] = "matched"
    /\ call.nextCalls = 1
    /\ KeyNames # {}
    /\ UrlValues(call.path) # UrlValues(reqPath["B"])
    /\ \A key \in KeyNames : call.params[key] = UrlValues(reqPath["B"])[key]

\* C4: a run of decodeParams with at least one violation writes exactly one
\* 422 response (application/json, "Validation failed", the error list) and
\* does not call next; a run without violation calls next exactly once and
\* writes nothing.
C4_OneOutcome ==
    Decoded =>
        IF \E p \in Declared : Violates(p, call)
        THEN /\ call.nextCalls = 0
             /\ Len(call.written) = 1
             /\ call.written[1].status = 422
             /\ call.written[1].contentType = "application/json"
             /\ call.written[1].message = "Validation failed"
             /\ call.written[1].errors = call.errors
             /\ call.errors # << >>
        ELSE /\ call.nextCalls = 1
             /\ call.written = << >>

\* C4 witnesses: both outcomes.
C4_Witness ==
    /\ Decoded
    /\ \E p \in Declared : Violates(p, call)
    /\ call.nextCalls = 0 /\ Len(call.written) = 1

C4_WitnessNext == Decoded /\ call.nextCalls = 1 /\ call.written = << >>

\* C5: the error list has exactly one entry for each declared parameter
\* that is missing-required or invalid and none for any other parameter;
\* its length is the number of violating parameters.
C5_AllViolationsCollected ==
    Decoded =>
        /\ \A p \in Declared :
              Cardinality(ErrorsFor(p.name, call)) =
                  IF Violates(p, call) THEN 1 ELSE 0
        /\ Len(call.errors) =
              Cardinality({p \in Declared : Violates(p, call)})

\* C5 witness: two independent parameters are violated, the list has length 2.
C5_Witness ==
    /\ Decoded
    /\ Len(call.errors) = 2
    /\ call.errors[1].field # call.errors[2].field

\* C6: match returns true exactly when the pattern matches and every
\* captured segment parses and passes check under its declared type; then
\* lastMatch has the segment names as keys, each with the parsed value of
\* its capture (of its last capture, for a name that occurs twice).  With n
\* of type number, /i/4 binds n to the number 4 and /i/i returns false.
C6_MatchBindsTypedValues ==
    Matched =>
        /\ call.ret <=>
              (call.reOk /\ \A i \in DOMAIN route.keys : ~SegFails(i))
        /\ call.ret =>
              /\ DOMAIN lastMatch = KeyNames
              /\ \A key \in KeyNames :
                    lastMatch[key] =
                        TypeParse(SegType(LastSeg(key)),
                                  call.caps[LastSeg(key)]).v
        /\ (call.reOk /\ route.keys = <<"n">> /\ SegType(1) = "number") =>
              /\ call.caps = <<<<"4">>>> => (call.ret /\ lastMatch = "n" :> Num(4))
              /\ call.caps = <<<<"i">>>> => ~call.ret
              /\ call.path = <<"/", "i", "/", "4">> => call.caps = <<<<"4">>>>

\* C6 witness: a number is bound from the path /i/4.
C6_Witness ==
    /\ Matched /\ call.ret
    /\ call.path = <<"/", "i", "/", "4">>
    /\ lastMatch = "n" :> Num(4)

\* C7: for every required parameter whose key is absent from its source
\* map, decodeParams emits exactly one error, with code missing_field, the
\* parameter's name as field and its source as source, and next is not
\* called.
C7_MissingRequired ==
    Decoded =>
        \A p \in Declared :
            IsMissing(p, call) =>
                /\ Cardinality(ErrorsFor(p.name, call)) = 1
                /\ \A i \in ErrorsFor(p.name, call) :
                      /\ call.errors[i].code = "missing_field"
                      /\ call.errors[i].field = p.name
                      /\ "source" \in DOMAIN call.errors[i]
                      /\ call.errors[i].source = p.source
                /\ call.nextCalls = 0

\* C7 witness: a required body parameter is missing from an empty body and
\* is the only error.
C7_Witness ==
    /\ Decoded
    /\ BodyOf(call) = EmptyObj
    /\ Len(call.errors) = 1
    /\ call.errors[1].code = "missing_field"
    /\ call.errors[1].source = "body"
    /\ call.nextCalls = 0

\* C8: when decodeParams succeeds, the keys of req.params are exactly the
\* declared parameters present in their source map: an absent optional
\* parameter is no key, and no undeclared key of body or query is one.
C8_ForwardedKeys ==
    (Decoded /\ call.nextCalls = 1) =>
        DOMAIN call.params = {p.name : p \in {d \in Declared : IsPresent(d, call)}}

\* C8 witness: success with an optional parameter absent and an undeclared
\* key in the query and in the body.
C8_Witness ==
    /\ Decoded /\ call.nextCalls = 1
    /\ \E p \in Declared : p.optional /\ ~IsPresent(p, call)
    /\ "z" \in DOMAIN call.query /\ "z" \in DOMAIN BodyOf(call)
    /\ call.params # EmptyObj

\* C9 as claimed: every violation record carries resource, field, source
\* and code, code being missing_field or invalid, and an invalid record
\* also type_expected, the display name of the parameter's type.
C9_EveryRecordCarriesSource ==
    Decoded =>
        \A i \in DOMAIN call.errors :
            /\ {"resource", "field", "source", "code"} \subseteq
                  DOMAIN call.errors[i]
            /\ call.errors[i].code \in {"missing_field", "invalid"}
            /\ call.errors[i].code = "invalid" =>
                  "type_expected" \in DOMAIN call.errors[i]

\* C9 amended: every violation record carries resource, field and code,
\* code being missing_field or invalid; a missing_field record also carries
\* source, the parameter's source, and nothing else; an invalid record also
\* carries type_expected, the display name of the parameter's type, and no
\* source.
C9_RecordShapes ==
    Decoded =>
        \A i \in DOMAIN call.errors :
            LET e == call.errors[i]
                p == ParamOf(route.params, e.field)
            IN  /\ e.code \in {"missing_field", "invalid"}
                /\ e.code = "missing_field" =>
                      /\ DOMAIN e = {"resource", "field", "source", "code"}
                      /\ e.source = p.source
                /\ e.code = "invalid" =>
                      /\ DOMAIN e = {"resource", "field", "type_expected", "code"}
                      /\ e.type_expected = TypeToString(p.type)

\* C9 witness: a run that emits a record of each code.
C9_Witness ==
    /\ Decoded
    /\ \E i, j \in DOMAIN call.errors :
          /\ call.errors[i].code = "missing_field"
          /\ call.errors[j].code = "invalid"

\* C10: for a present query parameter whose parse throws, decodeParams
\* reports exactly one error, of code invalid, never calls check for it,
\* leaves it out of req.params, and still evaluates every other declared
\* parameter; for a body parameter parse is never called, and check is
\* called when it is present.
C10_QueryParseFailure ==
    Decoded =>
        /\ \A p \in Declared :
              ParseThrows(p, call) =>
                  /\ Cardinality(ErrorsFor(p.name, call)) = 1
                  /\ \A i \in ErrorsFor(p.name, call) :
                        call.errors[i].code = "invalid"
                  /\ \A n \in DOMAIN call.calls :
                        call.calls[n] # <<"check", p.name>>
                  /\ p.name \notin DOMAIN call.params
                  /\ \A o \in Declared \ {p} :
                        /\ Violates(o, call) <=> ErrorsFor(o.name, call) # {}
                        /\ (IsPresent(o, call) /\ ~Violates(o, call)) =>
                              o.name \in DOMAIN call.params
        /\ \A p \in Declared :
              p.source = "body" =>
                  /\ \A n \in DOMAIN call.calls :
                        call.calls[n] # <<"parse", p.name>>
                  /\ IsPresent(p, call) =>
                        \E n \in DOMAIN call.calls :
                            call.calls[n] = <<"check", p.name>>

\* C10 witness: a query value does not parse, and the body parameter
\* declared after it is checked and forwarded in req.params.
C10_Witness ==
    /\ Decoded
    /\ \E p \in Declared :
          /\ ParseThrows(p, call)
          /\ \E o \in Declared :
                /\ o.source = "body"
                /\ o.name \in DOMAIN call.params
                /\ IndexOf(route.params, p.name) < IndexOf(route.params, o.name)
    /\ Len(call.errors) = 1

\* further path segments: the non-empty paths of the bound
Segments == Paths

\* C11: the matcher is anchored at both ends: when the pattern of the route
\* matches a path, it matches neither that path with further segments
\* appended nor that path with further segments prepended, and every named
\* segment has captured exactly one non-empty piece without a slash.
C11_AnchoredMatcher ==
    (Matched /\ call.reOk) =>
        /\ \A e \in Segments :
              /\ ~ReMatch(route.routeRe, call.path \o e).ok
              /\ ~ReMatch(route.routeRe, e \o call.path).ok
        /\ Len(call.caps) = Len(route.keys)
        /\ \A i \in DOMAIN call.caps :
              /\ call.caps[i] # << >>
              /\ \A j \in DOMAIN call.caps[i] : call.caps[i][j] # "/"

\* a template with a literal and a named segment has matched a path
C11_Witness ==
    /\ Matched
    /\ call.reOk
    /\ Len(route.keys) = 1
    /\ Len(route.routeRe) > 2
    /\ Len(call.path) = MaxPathLen

\* the names of the named segments of a template, from position i on, left
\* to right
RECURSIVE SegmentNames(_, _)
SegmentNames(path, i) ==
    IF i > Len(path) THEN << >>
    ELSE IF IsSegment(path, i)
    THEN <<Join(SubSeq(path, i + 2, WordRunEnd(path, i + 2)))>>
         \o SegmentNames(path, WordRunEnd(path, i + 2) + 1)
    ELSE SegmentNames(path, i + 1)

\* the names of the named segments of the template the route was built from
TemplateNames ==
    {SegmentNames(input.route, 1)[i] : i \in DOMAIN SegmentNames(input.route, 1)}

\* the declarations the constructor was given
Given == {input.params[i] : i \in DOMAIN input.params}

\* a segment name is declared with a source other than url
ConflictingSource ==
    \E d \in Given : d.name \in TemplateNames /\ d.source \notin {"", "url"}

\* a parameter that is no segment name is declared with a source that is
\* none of url, query, body
InvalidSource ==
    \E d \in Given :
        d.name \notin TemplateNames /\ d.source \notin {"", "url", "query", "body"}

C12_WitnessInvalid == InvalidSource /\ route.threw

\* the ParamDef of the route for name
Def(name) == ParamOf(route.params, name)

\* the names of the schema of the route
DefNames == {route.params[i].name : i \in DOMAIN route.params}

\* C13: after a successful construction every ParamDef has a source among
\* url, query, body, a boolean optional (false when the declaration sets
\* none) and a type of the registry; every segment name of the template has
\* source url and type string unless declared otherwise; a parameter declared
\* with source query has type string unless declared otherwise; a parameter
\* declared without a source that is no segment has source body and type
\* json unless declared otherwise.
C13_NormalizedSchema ==
    ~route.threw =>
        /\ \A p \in Declared :
              /\ p.source \in {"url", "query", "body"}
              /\ p.optional \in BOOLEAN
              /\ p.type \in Registered
        /\ \A i, j \in DOMAIN route.params :
              route.params[i].name = route.params[j].name => i = j
        /\ DefNames = TemplateNames \cup {d.name : d \in Given}
        /\ \A name \in TemplateNames :
              /\ Def(name).source = "url"
              /\ (\A d \in Given : d.name # name) =>
                    Def(name).type = "string" /\ ~Def(name).optional
        /\ \A d \in Given :
              /\ Def(d.name).type = IF d.type # "" THEN d.type
                                    ELSE IF d.name \in TemplateNames
                                    THEN "string"
                                    ELSE IF d.source = "query" THEN "string"
                                    ELSE IF d.source \in {"", "body"} THEN "json"
                                    ELSE Def(d.name).type
              /\ Def(d.name).source = IF d.name \in TemplateNames THEN "url"
                                      ELSE IF d.source = "" THEN "body"
                                      ELSE d.source
              /\ Def(d.name).optional = (d.optional = "true")

\* a constructed route with an undeclared segment and a parameter declared
\* without source and type
C13_Witness ==
    /\ ~route.threw
    /\ \E name \in TemplateNames : \A d \in Given : d.name # name
    /\ \E d \in Given :
          d.source = "" /\ d.type = "" /\ d.name \notin TemplateNames

\* a constructed route with a query parameter declared without type and
\* optional, and a segment name declared without source
C13_WitnessQuery ==
    /\ ~route.threw
    /\ \E d \in Given : d.source = "query" /\ d.type = "" /\ d.optional = ""
    /\ \E d \in Given : d.source = "" /\ d.name \in TemplateNames

\* the decodeParams closure of the route itself
OwnValidator == Step("decodeParams", 1)

\* C14: the middleware chain of the route starts with the route's own
\* decodeParams, holds it exactly once and no decodeParams of another route,
\* and ends with the handler step, also after further routes were
\* constructed from the same handler array.
C14_ChainStartsWithOwnValidator ==
    ~route.threw =>
        /\ middlewares[1] = OwnValidator
        /\ \A i \in DOMAIN middlewares :
              middlewares[i].fn = "decodeParams" => i = 1
        /\ middlewares[Len(middlewares)].fn \in {"handler", "wrapped"}

\* C15: no call of match, decodeParams or describe changes the compiled
\* pattern, the method, the ordered keys, the schema or the middleware chain
\* of the route; a describe call changes neither lastMatch nor what the last
\* match or decodeParams call is known to have done, and once describe has
\* returned a projection every later call returns the same one.
C15_ReadOnlyAfterConstruction ==
    [][/\ route'.routeRe = route.routeRe
       /\ route'.method = route.method
       /\ route'.keys = route.keys
       /\ route'.params = route.params
       /\ middlewares' = middlewares
       /\ (described' # described => lastMatch' = lastMatch /\ call' = call)
       /\ (described.called => described' = described)]_vars

\* describe has run on a route that holds the values of a successful match
\* and has validated a request
C15_Witness ==
    /\ described.called
    /\ described.exported
    /\ Decoded
    /\ lastMatch # EmptyObj

\* C16: every violation record of a decodeParams run names as resource the
\* name the route was declared with, and "root" only for a route declared
\* without a name.
C16_ResourceIsDeclaredName ==
    Decoded =>
        \A i \in DOMAIN call.errors :
            call.errors[i].resource = IF input.name # "" THEN input.name
                                      ELSE "root"

\* the number of capture groups of a compiled pattern
RECURSIVE CaptureGroups(_)
CaptureGroups(re) ==
    IF re = << >> THEN 0
    ELSE (IF Head(re).t = "cap" THEN 1 ELSE 0) + CaptureGroups(Tail(re))

\* C17: the ordered keys of a constructed route are the names of the named
\* segments of its template, left to right, a repeated name once per
\* occurrence; the compiled pattern has as many capture groups as keys; a
\* pattern match yields one capture per key, and after a successful match
\* every name is bound to the parsed capture of its last occurrence.
C17_KeysFollowTemplate ==
    ~route.threw =>
        /\ route.keys = SegmentNames(input.route, 1)
        /\ CaptureGroups(route.routeRe) = Len(route.keys)
        /\ (Matched /\ call.reOk) => Len(call.caps) = Len(route.keys)
        /\ (Matched /\ call.ret) =>
              /\ DOMAIN lastMatch = KeyNames
              /\ \A key \in KeyNames :
                    lastMatch[key] =
                        TypeParse(SegType(LastSeg(key)),
                                  call.caps[LastSeg(key)]).v

\* a template that names one segment twice has matched a path whose two
\* segments differ: the name is bound to the second
C17_Witness ==
    /\ Matched
    /\ call.ret
    /\ Len(route.keys) = 2
    /\ route.keys[1] = route.keys[2]
    /\ call.caps[1] # call.caps[2]
    /\ lastMatch[route.keys[1]] = Str(call.caps[2])

\* What route rt answers to the request (path, query, body): whether match
\* accepts the path and, if so, the error list and the forwarded parameters
\* of decodeParams.
Verdict(rt, path, query, body) ==
    LET m == RouteMatch(rt, EmptyObj, path)
        d == RunDecodeParams(rt, m.lastMatch, body, query)
    IN  IF rt.threw \/ ~m.ret THEN [accepted |-> FALSE]
        ELSE [accepted |-> TRUE, errors |-> d.errors, params |-> d.params,
              forwarded |-> d.nextCalls]

\* C18: a route constructed again from the template and options of the first
\* (the options as written, or the options object the first construction has
\* normalized in place) accepts and rejects the same paths as the first and
\* gives the same error list or forwarded parameters for every request.
C18_SameVerdicts ==
    call.op = "construct" =>
        \A k \in DOMAIN other, path \in Paths, query \in Queries,
           body \in Bodies :
            Verdict(other[k].route, path, query, body) =
                Verdict(route, path, query, body)

\* a route with url, query and body parameters was constructed again from
\* the options object normalized by the first construction
C18_Witness ==
    /\ call.op = "construct"
    /\ other # << >>
    /\ other[Len(other)].reused
    /\ {"url", "query", "body"} \subseteq {p.source : p \in Declared}
    /\ \E path \in Paths, query \in Queries, body \in Bodies :
          /\ Verdict(route, path, query, body).accepted
          /\ Verdict(route, path, query, body).errors # << >>

\* C19: once decodeParams has run for a request, lastMatch is empty: the
\* match state does not outlive the request's match and validation.
C19_MatchStateConsumed == Decoded => lastMatch = EmptyObj

\* the ParamDefs of the route whose source is url
UrlDeclared == {p \in Declared : p.source = "url"}

\* C20: a decodeParams run that directly follows the successful match of its
\* request reports no error for a parameter whose source is url and
\* forwards, for every such parameter the match has bound, the bound value,
\* whatever schema the constructor has accepted.
C20_UrlValuesTrusted ==
    (Decoded /\ call.urlParams = UrlValues(call.path)) =>
        \A p \in UrlDeclared :
            /\ ErrorsFor(p.name, call) = {}
            /\ p.name \in KeyNames =>
                  /\ p.name \in DOMAIN call.params
                  /\ call.params[p.name] = UrlValues(call.path)[p.name]

====
